---- MODULE Spec2Model ----
(***************************************************************************)
(* The streaming session orchestrator of src/src/server/app.py:            *)
(* chat_stream, _astream_workflow_generator, _stream_graph_events,         *)
(* _process_message_chunk, _create_interrupt_event and _make_event, with   *)
(* the shared engine instance `graph`, the checkpoint connections and the  *)
(* side log written through chat_stream_message.                           *)
(***************************************************************************)
EXTENDS Naturals, Integers, Sequences, FiniteSets, TLC

VARIABLES
    env,            \* process environment read by get_bool_env / get_str_env
    graph,          \* the shared engine instance: its attached checkpointer
    openConns,      \* call ids whose checkpoint connection is open
    sideLog,        \* thread_id -> records passed to chat_stream_message
    calls,          \* number of chat requests accepted so far
    uuids,          \* number of thread ids minted by uuid4() so far
    yielded,        \* number of events the engine has yielded so far
    pc,             \* per request slot: position of its generator
    req,            \* per slot: the ChatRequest being served
    thread_id,      \* per slot: resolved thread id
    workflow_input, \* per slot: engine input (fresh state or Command(resume))
    cfg,            \* per slot: checkpoint_saver / checkpoint_url read by the call
    callId,         \* per slot: id of the call (names its connection)
    consumed,       \* per slot: engine events received by _stream_graph_events
    out,            \* per slot: frames yielded to the StreamingResponse
    acq,            \* per slot: connections acquired by the call
    rel,            \* per slot: connections released by the call
    starts,         \* per slot: times graph.astream was started by the call
    block,          \* per slot: the async with block the generator is inside
    ranWith,        \* per slot: checkpointer the engine saw when started
    threads,        \* thread_id -> what the engine's checkpoint of the thread holds
    workflow_config,\* per slot: the engine configuration of the call
    mcp_settings    \* per slot: the mcp_settings argument of the generator

vars == <<env, graph, openConns, sideLog, calls, uuids, yielded, pc, req,
          thread_id, workflow_input, cfg, callId, consumed, out, acq, rel,
          starts, block, ranWith, threads, workflow_config, mcp_settings>>

(* ------------------------------ bounds -------------------------------- *)

\* chat requests accepted over the life of the process
MaxCalls == 2
\* events the engine yields over the life of the process
MaxEvents == 2
\* messages in one chat request
MaxMsgs == 2

(* --------------------------- Python values ---------------------------- *)

\* None
NoneVal == "<None>"
\* a value json.dumps cannot serialize (raises TypeError)
Obj == "<object>"

\* dict.get(k, default)
Get(d, k, default) == IF k \in DOMAIN d THEN d[k] ELSE default
\* d[k] = v
Put(d, k, v) == [x \in (DOMAIN d) \cup {k} |-> IF x = k THEN v ELSE d[x]]
\* d.pop(k)
Pop(d, k) == [x \in (DOMAIN d) \ {k} |-> d[x]]
\* truthiness of a str / None
Truthy(s) == s # "" /\ s # NoneVal
\* str.startswith
StartsWith(s, p) == Len(s) >= Len(p) /\ SubSeq(s, 1, Len(p)) = p

RECURSIVE FindChar(_, _, _)
\* index of the first c in s at or after i, 0 when there is none
FindChar(s, c, i) ==
    IF i > Len(s) THEN 0
    ELSE IF SubSeq(s, i, i) = c THEN i
    ELSE FindChar(s, c, i + 1)

\* s.split(c)[0]
SplitHead(s, c) ==
    LET i == FindChar(s, c, 1) IN IF i = 0 THEN s ELSE SubSeq(s, 1, i - 1)

(* ----------------------------- event model ---------------------------- *)

\* keys of a wire payload whose value is a list
ListKeys == {"tool_calls", "tool_call_chunks", "options"}

\* json.dumps(data, ensure_ascii=False) succeeds: no value of the payload is
\* an object the encoder rejects (TypeError / ValueError otherwise)
Serializable(d) ==
    \A k \in DOMAIN d :
        IF k \in ListKeys
        THEN \A i \in 1..Len(d[k]) : \A f \in DOMAIN d[k][i] : d[k][i][f] # Obj
        ELSE d[k] # Obj

\* the fixed resume options of an interrupt event
InterruptOptions ==
    << [text |-> "Edit plan", value |-> "edit_plan"],
       [text |-> "Start research", value |-> "accepted"] >>

\* the safe error event of _make_event
ErrorFrame == [event |-> "error", data |-> [error |-> "Serialization failed"]]

\* a JSON fragment cut in the middle, its repaired form, and one beyond repair
TruncatedArgs == "{\"q\": \"ai"
RepairedArgs == "{\"q\": \"ai\"}"
BrokenArgs == "}{"

\* sanitize_args: best-effort repair of a tool-call arguments fragment;
\* what cannot be repaired is passed through unchanged, non-strings become ""
sanitize_args(args) ==
    IF args = Obj \/ args = NoneVal THEN ""
    ELSE IF args = TruncatedArgs THEN RepairedArgs
    ELSE args

\* mutant: a chunk whose arguments are not a repaired fragment is left out
_process_tool_call_chunks_DropsBroken(tool_call_chunks) ==
    LET kept == SelectSeq(tool_call_chunks,
                    LAMBDA c : Get(c, "args", "") \in {"", TruncatedArgs, RepairedArgs})
    IN  [i \in 1..Len(kept) |->
            [name  |-> Get(kept[i], "name", ""),
             args  |-> sanitize_args(Get(kept[i], "args", "")),
             id    |-> Get(kept[i], "id", ""),
             index |-> Get(kept[i], "index", "0"),
             type  |-> Get(kept[i], "type", "")]]

_process_tool_call_chunks(tool_call_chunks) ==
    [i \in 1..Len(tool_call_chunks) |->
        [name  |-> Get(tool_call_chunks[i], "name", ""),
         args  |-> sanitize_args(Get(tool_call_chunks[i], "args", "")),
         id    |-> Get(tool_call_chunks[i], "id", ""),
         index |-> Get(tool_call_chunks[i], "index", "0"),
         type  |-> Get(tool_call_chunks[i], "type", "")]]

\* mutant: the first element of the agent path is used as it is
_get_agent_name_WholeElement(agent, message_metadata) ==
    IF Len(agent) > 0
    THEN agent[1]
    ELSE Get(message_metadata, "langgraph_node", "unknown")

_get_agent_name(agent, message_metadata) ==
    IF Len(agent) > 0
    THEN IF FindChar(agent[1], ":", 1) # 0
         THEN SplitHead(agent[1], ":")
         ELSE agent[1]
    ELSE Get(message_metadata, "langgraph_node", "unknown")

\* mutant: the base message is built without its agent
_create_event_stream_message_NoAgent(message_chunk, message_metadata, tid, agent_name) ==
    [thread_id |-> tid,
     id        |-> message_chunk.id,
     role      |-> "assistant",
     content   |-> message_chunk.content]

\* the nine base keys, then the optional ones
_create_event_stream_message(message_chunk, message_metadata, tid, agent_name) ==
    LET base ==
            [thread_id      |-> tid,
             agent          |-> agent_name,
             id             |-> message_chunk.id,
             role           |-> "assistant",
             checkpoint_ns  |-> Get(message_metadata, "checkpoint_ns", ""),
             langgraph_node |-> Get(message_metadata, "langgraph_node", ""),
             langgraph_path |-> Get(message_metadata, "langgraph_path", ""),
             langgraph_step |-> Get(message_metadata, "langgraph_step", ""),
             content        |-> message_chunk.content]
        withReasoning ==
            IF Truthy(message_chunk.reasoning_content)
            THEN Put(base, "reasoning_content", message_chunk.reasoning_content)
            ELSE base
    IN  IF Truthy(message_chunk.finish_reason)
        THEN Put(withReasoning, "finish_reason", message_chunk.finish_reason)
        ELSE withReasoning

\* mutant: the payload is framed as it came, empty content included
StripEmptyContent_Keeps(data) == data

\* lines 650-651: an empty-string content is dropped from the payload
StripEmptyContent(data) ==
    IF "content" \in DOMAIN data /\ data["content"] = ""
    THEN Pop(data, "content")
    ELSE data

\* one record of the side log: chat_stream_message(thread_id, frame, finish_reason)
LogRecord(tid, frame, tag) == [thread_id |-> tid, frame |-> frame, tag |-> tag]

\* mutant: the side log is written with an empty tag whatever the finish_reason
_make_event_UntaggedLog(event_type, data) ==
    LET d == StripEmptyContent(data)
        frame == [event |-> event_type, data |-> d]
    IN  IF Serializable(d)
        THEN [frame |-> frame,
              log   |-> << LogRecord(Get(d, "thread_id", ""), frame, "") >>]
        ELSE [frame |-> ErrorFrame, log |-> << >>]

\* mutant: the substitute event reports the exception instead of the fixed text
_make_event_ReportsException(event_type, data) ==
    LET d == StripEmptyContent(data)
        frame == [event |-> event_type, data |-> d]
    IN  IF Serializable(d)
        THEN [frame |-> frame,
              log   |-> << LogRecord(Get(d, "thread_id", ""), frame,
                                     Get(d, "finish_reason", "")) >>]
        ELSE [frame |-> [event |-> "error",
                         data |-> [error |-> "Object is not JSON serializable"]],
              log |-> << >>]

\* _make_event: the frame returned to the caller and what it passed to
\* chat_stream_message on the way (nothing when json.dumps raised)
_make_event(event_type, data) ==
    LET d == StripEmptyContent(data)
        frame == [event |-> event_type, data |-> d]
    IN  IF Serializable(d)
        THEN [frame |-> frame,
              log   |-> << LogRecord(Get(d, "thread_id", ""), frame,
                                     Get(d, "finish_reason", "")) >>]
        ELSE [frame |-> ErrorFrame, log |-> << >>]

\* what handling one engine event gives: the frames yielded (none or one), the
\* side-log records written, and whether an exception left the handler
Handled(frames, log) == [raised |-> FALSE, frames |-> frames, log |-> log]
Raised == [raised |-> TRUE, frames |-> << >>, log |-> << >>]

\* mutant: the namespace list is looked at before the identifier
_create_interrupt_event_NsFirst(tid, event_data) ==
    IF Len(event_data.interrupts) = 0
    THEN Raised
    ELSE
    LET interrupt_obj == event_data.interrupts[1]
        attrs == interrupt_obj.attrs
        interrupt_id ==
            IF interrupt_obj.raises THEN "interrupt"
            ELSE IF "ns" \in DOMAIN attrs /\ Len(attrs["ns"]) > 0
                 THEN attrs["ns"][1]
            ELSE Get(attrs, "id", "interrupt")
        interrupt_value ==
            IF interrupt_obj.raises THEN interrupt_obj.str
            ELSE Get(attrs, "value", interrupt_obj.str)
        made == _make_event("interrupt",
                    [thread_id     |-> tid,
                     id            |-> interrupt_id,
                     role          |-> "assistant",
                     content       |-> interrupt_value,
                     finish_reason |-> "interrupt",
                     options       |-> InterruptOptions])
    IN  Handled(<< made.frame >>, made.log)

_create_interrupt_event(tid, event_data) ==
    IF Len(event_data.interrupts) = 0
    THEN Raised    \* event_data["__interrupt__"][0]: IndexError, outside the try
    ELSE
    LET interrupt_obj == event_data.interrupts[1]
        attrs == interrupt_obj.attrs
        id0 == Get(attrs, "id", NoneVal)
        interrupt_id ==
            IF interrupt_obj.raises THEN "interrupt"
            ELSE IF id0 # NoneVal THEN id0
            ELSE IF "ns" \in DOMAIN attrs /\ Len(attrs["ns"]) > 0
                 THEN attrs["ns"][1]
                 ELSE "interrupt"
        interrupt_value ==
            IF interrupt_obj.raises THEN interrupt_obj.str
            ELSE Get(attrs, "value", interrupt_obj.str)
        made == _make_event("interrupt",
                    [thread_id     |-> tid,
                     id            |-> interrupt_id,
                     role          |-> "assistant",
                     content       |-> interrupt_value,
                     finish_reason |-> "interrupt",
                     options       |-> InterruptOptions])
    IN  Handled(<< made.frame >>, made.log)

\* mutant: partial tool-call fragments are looked at before completed calls
_process_message_chunk_ChunksFirst(message_chunk, message_metadata, tid, agent) ==
    LET agent_name == _get_agent_name(agent, message_metadata)
        msg == _create_event_stream_message(message_chunk, message_metadata,
                                            tid, agent_name)
        chunks == _process_tool_call_chunks(message_chunk.tool_call_chunks)
        made ==
            IF message_chunk.cls = "ToolMessage"
            THEN _make_event("tool_call_result",
                     Put(msg, "tool_call_id", message_chunk.tool_call_id))
            ELSE IF Len(message_chunk.tool_call_chunks) > 0
            THEN _make_event("tool_call_chunks", Put(msg, "tool_call_chunks", chunks))
            ELSE IF Len(message_chunk.tool_calls) > 0
            THEN _make_event("tool_calls",
                     Put(Put(msg, "tool_calls", message_chunk.tool_calls),
                         "tool_call_chunks", chunks))
            ELSE _make_event("message_chunk", msg)
    IN  IF message_chunk.cls \in {"ToolMessage", "AIMessageChunk"}
        THEN Handled(<< made.frame >>, made.log)
        ELSE Handled(<< >>, << >>)

_process_message_chunk(message_chunk, message_metadata, tid, agent) ==
    LET agent_name == _get_agent_name(agent, message_metadata)
        msg == _create_event_stream_message(message_chunk, message_metadata,
                                            tid, agent_name)
        made ==
            IF message_chunk.cls = "ToolMessage"
            THEN _make_event("tool_call_result",
                     Put(msg, "tool_call_id", message_chunk.tool_call_id))
            ELSE IF Len(message_chunk.tool_calls) > 0
            THEN _make_event("tool_calls",
                     Put(Put(msg, "tool_calls", message_chunk.tool_calls),
                         "tool_call_chunks",
                         _process_tool_call_chunks(message_chunk.tool_call_chunks)))
            ELSE IF Len(message_chunk.tool_call_chunks) > 0
            THEN _make_event("tool_call_chunks",
                     Put(msg, "tool_call_chunks",
                         _process_tool_call_chunks(message_chunk.tool_call_chunks)))
            ELSE _make_event("message_chunk", msg)
    IN  IF message_chunk.cls \in {"ToolMessage", "AIMessageChunk"}
        THEN Handled(<< made.frame >>, made.log)
        ELSE Handled(<< >>, << >>)

\* mutant: the `continue` swallows every dict, interrupts included
StreamGraphEvent_SkipsInterrupts(tid, ev) ==
    IF ev.kind = "updates"
    THEN Handled(<< >>, << >>)
    ELSE _process_message_chunk(ev.message, ev.metadata, tid, ev.agent)

\* the body of the async for of _stream_graph_events for one engine event
StreamGraphEvent(tid, ev) ==
    IF ev.kind = "updates"
    THEN IF ev.has_interrupt
         THEN _create_interrupt_event(tid, ev)
         ELSE Handled(<< >>, << >>)
    ELSE _process_message_chunk(ev.message, ev.metadata, tid, ev.agent)

(* --------------------------- engine events ---------------------------- *)

\* a BaseMessage as _process_message_chunk reads it
Message(cls, id, content, finish_reason, tool_calls, tool_call_chunks, tool_call_id) ==
    [cls |-> cls, id |-> id, content |-> content,
     reasoning_content |-> NoneVal, finish_reason |-> finish_reason,
     tool_calls |-> tool_calls, tool_call_chunks |-> tool_call_chunks,
     tool_call_id |-> tool_call_id]

NoMessage == Message("none", NoneVal, "", NoneVal, << >>, << >>, NoneVal)

\* (agent, _, (message_chunk, message_metadata)) of stream mode "messages"
MessageEvent(agent, message, metadata) ==
    [kind |-> "messages", agent |-> agent, message |-> message,
     metadata |-> metadata, has_interrupt |-> FALSE, interrupts |-> << >>]

\* (agent, _, {...}) of stream mode "updates"; interrupts is the value of the
\* "__interrupt__" key when the dict has one
UpdateEvent(agent, has_interrupt, interrupts) ==
    [kind |-> "updates", agent |-> agent, message |-> NoMessage,
     metadata |-> << >>, has_interrupt |-> has_interrupt,
     interrupts |-> interrupts]

\* an element of an "__interrupt__" list: the attributes it has, whether
\* reading an attribute raises, and its str()
InterruptObj(attrs, raises) ==
    [attrs |-> attrs, raises |-> raises, str |-> "Interrupt(...)"]

PlannerMeta ==
    [langgraph_node |-> "planner", langgraph_step |-> "2",
     langgraph_path |-> "__pregel_pull,planner", checkpoint_ns |-> "planner:1a2b"]

ToolCall == [name |-> "web_search", args |-> RepairedArgs, id |-> "call_1",
             type |-> "tool_call"]
ToolCallChunk == [name |-> "web_search", args |-> TruncatedArgs, id |-> "call_1",
                  index |-> "0", type |-> "tool_call_chunk"]

EvText ==
    MessageEvent(<< "planner:1a2b" >>,
        Message("AIMessageChunk", "run-1", "Hello", NoneVal, << >>, << >>, NoneVal),
        PlannerMeta)
EvStop ==
    MessageEvent(<< >>,
        Message("AIMessageChunk", "run-1", "", "stop", << >>, << >>, NoneVal),
        PlannerMeta)
EvToolCalls ==
    MessageEvent(<< "researcher:3c4d" >>,
        Message("AIMessageChunk", "run-2", "", NoneVal,
                << ToolCall >>, << ToolCallChunk >>, NoneVal),
        << >>)
\* two partial fragments, the first beyond repair; no agent path, no metadata
EvToolCallChunks ==
    MessageEvent(<< >>,
        Message("AIMessageChunk", "run-2", "", NoneVal,
                << >>, << [args |-> BrokenArgs], ToolCallChunk >>, NoneVal),
        << >>)
\* the agent path of a node of the top-level graph has no ':'
EvToolResult ==
    MessageEvent(<< "researcher" >>,
        Message("ToolMessage", "tool-1", "42 results", NoneVal, << >>, << >>, "call_1"),
        << >>)
\* a message that is neither a ToolMessage nor an AIMessageChunk
EvHumanMessage ==
    MessageEvent(<< "researcher:3c4d" >>,
        Message("HumanMessage", "msg-1", "findings", NoneVal, << >>, << >>, NoneVal),
        << >>)
\* a state update of a node, without "__interrupt__"
EvUpdate == UpdateEvent(<< >>, FALSE, << >>)
EvInterrupt ==
    UpdateEvent(<< >>, TRUE,
        << InterruptObj([id |-> "int-1", ns |-> << "human_feedback:5e6f" >>,
                         value |-> "Please Review the Plan."], FALSE) >>)
EvInterruptLegacy ==
    UpdateEvent(<< >>, TRUE,
        << InterruptObj([ns |-> << "human_feedback:5e6f" >>, value |-> ""], FALSE) >>)
\* a suspension whose namespace list is empty
EvInterruptEmptyNs ==
    UpdateEvent(<< >>, TRUE,
        << InterruptObj([ns |-> << >>, value |-> "Edit or accept?"], FALSE) >>)
EvInterruptBare ==
    UpdateEvent(<< >>, TRUE, << InterruptObj(<< >>, FALSE) >>)
EvInterruptRaises ==
    UpdateEvent(<< >>, TRUE, << InterruptObj([id |-> "int-2"], TRUE) >>)
EvInterruptObjValue ==
    UpdateEvent(<< >>, TRUE, << InterruptObj([id |-> "int-3", value |-> Obj], FALSE) >>)
EvInterruptEmpty == UpdateEvent(<< >>, TRUE, << >>)

\* the events the engine may yield
MessageEvents == {EvText, EvStop, EvToolCalls, EvToolCallChunks, EvToolResult,
                  EvHumanMessage}
SuspensionEvents == {EvInterrupt, EvInterruptLegacy, EvInterruptEmptyNs, EvInterruptBare,
                     EvInterruptRaises, EvInterruptObjValue, EvInterruptEmpty}
EngineEvents == MessageEvents \cup {EvUpdate} \cup SuspensionEvents

(* ------------------------------ requests ------------------------------ *)

\* the thread token that asks for a new thread
DefaultThread == "__default__"

\* str(uuid4()): the n-th identifier minted by the process
Uuid(n) == "uuid-" \o ToString(n)

\* mutant: the sentinel is used as the thread id of the new conversation
ResolveThreadId_KeepsSentinel(token, n) == token

\* mutant: every new conversation gets the same identifier
ResolveThreadId_OneId(token, n) ==
    IF token = DefaultThread THEN Uuid(1) ELSE token

\* lines 366-368: the thread id of a request, n ids having been minted before
ResolveThreadId(token, n) ==
    IF token = DefaultThread THEN Uuid(n + 1) ELSE token

\* mutant: the MCP settings of a request are never checked
McpRejected_Never(mcp, mcp_enabled) == FALSE

\* line 360: `request.mcp_settings and not mcp_enabled`
McpRejected(mcp, mcp_enabled) == Len(mcp) > 0 /\ ~mcp_enabled

ChatMessage(content) == [role |-> "user", content |-> content]

\* mcp_settings of a request: the configured servers; none stands for a
\* request without the field and for an empty dict, both falsy
NoMcpSettings == << >>
McpSettings == << "mcp-github-trending" >>

ChatRequest(token, messages, auto_accepted_plan, interrupt_feedback, mcp) ==
    [thread_id |-> token, messages |-> messages,
     auto_accepted_plan |-> auto_accepted_plan,
     interrupt_feedback |-> interrupt_feedback,
     mcp_settings |-> mcp]

\* the requests clients send to the streaming endpoint
Requests ==
    { ChatRequest(DefaultThread, << ChatMessage("research AI") >>, FALSE, NoneVal,
                  NoMcpSettings),
      ChatRequest("t1", << ChatMessage("go") >>, FALSE, "accepted", NoMcpSettings),
      ChatRequest("t1", << >>, TRUE, "", McpSettings) }

NoInput == [type |-> "none"]

\* mutant: a request with feedback resumes whatever auto_accepted_plan says
PrepareWorkflowInput_IgnoresAutoAccept(messages, auto_accepted_plan, interrupt_feedback) ==
    IF Truthy(interrupt_feedback)
    THEN [type |-> "command",
          resume |-> IF Len(messages) > 0
                     THEN "[" \o interrupt_feedback \o "] "
                              \o messages[Len(messages)].content
                     ELSE "[" \o interrupt_feedback \o "]"]
    ELSE [type |-> "input", messages |-> messages, plan_iterations |-> 0,
          final_report |-> "", current_plan |-> NoneVal, observations |-> << >>,
          auto_accepted_plan |-> auto_accepted_plan,
          research_topic |->
              IF Len(messages) > 0 THEN messages[Len(messages)].content ELSE ""]

\* mutant: every request that is not auto-accepted resumes, feedback or not
PrepareWorkflowInput_ResumesUnlessAccepted(messages, auto_accepted_plan, interrupt_feedback) ==
    IF ~auto_accepted_plan
    THEN [type |-> "command",
          resume |-> IF Len(messages) > 0
                     THEN "[" \o interrupt_feedback \o "] "
                              \o messages[Len(messages)].content
                     ELSE "[" \o interrupt_feedback \o "]"]
    ELSE [type |-> "input", messages |-> messages, plan_iterations |-> 0,
          final_report |-> "", current_plan |-> NoneVal, observations |-> << >>,
          auto_accepted_plan |-> auto_accepted_plan,
          research_topic |->
              IF Len(messages) > 0 THEN messages[Len(messages)].content ELSE ""]

\* lines 576-592: the engine input of a request
PrepareWorkflowInput(messages, auto_accepted_plan, interrupt_feedback) ==
    LET fresh ==
            [type |-> "input",
             messages |-> messages,
             plan_iterations |-> 0,
             final_report |-> "",
             current_plan |-> NoneVal,
             observations |-> << >>,
             auto_accepted_plan |-> auto_accepted_plan,
             research_topic |->
                 IF Len(messages) > 0 THEN messages[Len(messages)].content ELSE ""]
        bracket == "[" \o interrupt_feedback \o "]"
        resume_msg ==
            IF Len(messages) > 0
            THEN bracket \o " " \o messages[Len(messages)].content
            ELSE bracket
    IN  IF ~auto_accepted_plan /\ Truthy(interrupt_feedback)
        THEN [type |-> "command", resume |-> resume_msg]
        ELSE fresh

NoConfig == [thread_id |-> NoneVal, mcp_settings |-> NoMcpSettings]

\* mutant: the configuration carries the server's own MCP settings
WorkflowConfig_OwnMcp(tid, mcp) == [thread_id |-> tid, mcp_settings |-> McpSettings]

\* lines 595-605: the configuration handed to graph.astream (the fields that
\* depend on more than the request itself)
WorkflowConfig(tid, mcp) == [thread_id |-> tid, mcp_settings |-> mcp]

\* _process_initial_messages: the record one request message leaves in the
\* side log (json.dumps of a dict of strings cannot fail)
InitialRecord(message, tid) ==
    LogRecord(tid,
        [event |-> "message_chunk",
         data  |-> [thread_id |-> tid,
                    id        |-> "run--" \o Get(message, "id", "<hex>"),
                    role      |-> "user",
                    content   |-> Get(message, "content", "")]],
        "none")

\* mutant: the request's messages are not logged
InitialRecords_None(messages, tid) == << >>

\* lines 572-574: the records of the messages that have a "content" key
RECURSIVE InitialRecords(_, _)
InitialRecords(messages, tid) ==
    IF Len(messages) = 0 THEN << >>
    ELSE (IF "content" \in DOMAIN Head(messages)
          THEN << InitialRecord(Head(messages), tid) >>
          ELSE << >>) \o InitialRecords(Tail(messages), tid)

(* ---------------------------- environment ----------------------------- *)

PostgresUrl == "postgresql://db/ckpt"
MongoUrl == "mongodb://db/ckpt"
OtherUrl == "sqlite:///ckpt.db"

\* LANGGRAPH_CHECKPOINT_SAVER and LANGGRAPH_CHECKPOINT_DB_URL as the process
\* may find them
Envs == [saver : BOOLEAN, url : {"", PostgresUrl, MongoUrl, OtherUrl}]

\* ENABLE_MCP_SERVER_CONFIGURATION as chat_stream reads it (line 357)
McpEnabled(e) == e.mcp

\* line 615: `checkpoint_saver and checkpoint_url != ""`
Persistent(c) == c.saver /\ c.url # ""
\* line 616
IsPostgres(url) == StartsWith(url, "postgresql://")
\* line 630
IsMongo(url) == StartsWith(url, "mongodb://")

\* the checkpointer build_graph_with_memory() compiles into the graph
InitialCheckpointer == [kind |-> "memory", conn |-> 0]

\* AsyncPostgresSaver(conn) / AsyncMongoDBSaver over the call's connection
Checkpointer(kind, id) == [kind |-> kind, conn |-> id]

(* ------------------------------- state -------------------------------- *)

\* request slots: generators that may be alive at the same time
Reqs == {1, 2}

\* generator positions after which the call is over
Ended == {"done", "failed", "cancelled", "closed", "rejected"}

NoRequest == ChatRequest("", << >>, FALSE, NoneVal, NoMcpSettings)
NoCfg == [saver |-> FALSE, url |-> ""]
NoCheckpointer == [kind |-> "none", conn |-> 0]

\* mutant: a write puts the record in front of what the side log held
RECURSIVE LogAll_Prepends(_, _)
LogAll_Prepends(log, records) ==
    IF Len(records) = 0 THEN log
    ELSE LET rec == Head(records)
         IN  LogAll_Prepends(Put(log, rec.thread_id,
                                 << rec >> \o Get(log, rec.thread_id, << >>)),
                             Tail(records))

\* mutant: a write replaces what the side log of the thread held
RECURSIVE LogAll_KeepsLast(_, _)
LogAll_KeepsLast(log, records) ==
    IF Len(records) = 0 THEN log
    ELSE LogAll_KeepsLast(Put(log, Head(records).thread_id, << Head(records) >>),
                          Tail(records))

\* chat_stream_message(thread_id, frame, finish_reason) for each record in turn
RECURSIVE LogAll(_, _)
LogAll(log, records) ==
    IF Len(records) = 0 THEN log
    ELSE LET rec == Head(records)
         IN  LogAll(Put(log, rec.thread_id,
                        Append(Get(log, rec.thread_id, << >>), rec)),
                    Tail(records))

\* mutant: the connection is closed by hand after the loop, so an exception
\* leaves it open
AsyncWithExit_LeaksOnRaise(conns, id, how) ==
    IF how = "raise" THEN conns ELSE conns \ {id}

\* mutant: the connection is closed in `except Exception` and after the loop;
\* GeneratorExit passes by both
AsyncWithExit_LeaksOnClose(conns, id, how) ==
    IF how = "close" THEN conns ELSE conns \ {id}

\* leaving an `async with` block (lines 618-628, 632-640) by return, by an
\* exception or by the generator being closed: __aexit__ closes the connection
AsyncWithExit(conns, id, how) == conns \ {id}

\* mutant: the newest frame is put in front of the ones already sent
YieldEvent_Prepends(sent, frame) == << frame >> \o sent

\* `yield event`: the frame goes to the StreamingResponse
YieldEvent(sent, frame) == Append(sent, frame)

\* `async for event in ...: yield event`, for the frames one engine event gave
RECURSIVE YieldAll(_, _)
YieldAll(sent, frames) ==
    IF Len(frames) = 0 THEN sent
    ELSE YieldAll(YieldEvent(sent, Head(frames)), Tail(frames))

\* mutant: starting the engine for one thread marks every thread as running
ThreadStarted_AllThreads(ths, tid) ==
    [t \in (DOMAIN ths) \cup {tid} |-> "RUNNING"]

\* graph.astream is started for a thread: its checkpoint is that of a run in
\* progress, whatever it held before
ThreadStarted(ths, tid) == Put(ths, tid, "RUNNING")

\* the engine reports pending interrupts of the thread (lines 543-544): its
\* checkpoint is that of a suspended run
ThreadSuspended(ths, tid) == Put(ths, tid, "SUSPENDED")

\* the checkpoint of the thread after the engine yielded ev
ThreadAfter(ths, tid, ev) ==
    IF ev.kind = "updates" /\ ev.has_interrupt /\ Len(ev.interrupts) > 0
    THEN ThreadSuspended(ths, tid)
    ELSE ths

Init ==
    /\ env = [saver |-> FALSE, url |-> "", mcp |-> FALSE]
    /\ graph = [checkpointer |-> InitialCheckpointer]
    /\ openConns = {}
    /\ sideLog = << >>
    /\ calls = 0
    /\ uuids = 0
    /\ yielded = 0
    /\ pc = [r \in Reqs |-> "idle"]
    /\ req = [r \in Reqs |-> NoRequest]
    /\ thread_id = [r \in Reqs |-> ""]
    /\ workflow_input = [r \in Reqs |-> NoInput]
    /\ cfg = [r \in Reqs |-> NoCfg]
    /\ callId = [r \in Reqs |-> 0]
    /\ consumed = [r \in Reqs |-> << >>]
    /\ out = [r \in Reqs |-> << >>]
    /\ acq = [r \in Reqs |-> 0]
    /\ rel = [r \in Reqs |-> 0]
    /\ starts = [r \in Reqs |-> 0]
    /\ block = [r \in Reqs |-> "none"]
    /\ ranWith = [r \in Reqs |-> NoCheckpointer]
    /\ threads = << >>
    /\ workflow_config = [r \in Reqs |-> NoConfig]
    /\ mcp_settings = [r \in Reqs |-> NoMcpSettings]

\* os.environ changes; the checkpoint settings are read only at lines
\* 607-608, so a change matters only while a generator is about to run up to
\* there
SetEnv ==
    /\ \E r \in Reqs : pc[r] = "created"
    /\ \E e \in Envs :
        /\ [saver |-> e.saver, url |-> e.url] # [saver |-> env.saver, url |-> env.url]
        /\ env' = [saver |-> e.saver, url |-> e.url, mcp |-> env.mcp]
    /\ UNCHANGED <<graph, openConns, sideLog, calls, uuids, yielded, pc, req,
                   thread_id, workflow_input, cfg, callId, consumed, out, acq,
                   rel, starts, block, ranWith, threads, workflow_config,
                   mcp_settings>>

\* ENABLE_MCP_SERVER_CONFIGURATION changes; it is read only at line 357, so a
\* change matters only before slot r takes a request
SetMcpEnv(r) ==
    /\ pc[r] = "idle" \/ (pc[r] \in Ended /\ calls < MaxCalls)
    /\ env' = [env EXCEPT !.mcp = ~@]
    /\ UNCHANGED <<graph, openConns, sideLog, calls, uuids, yielded, pc, req,
                   thread_id, workflow_input, cfg, callId, consumed, out, acq,
                   rel, starts, block, ranWith, threads, workflow_config,
                   mcp_settings>>

\* chat_stream: check the MCP settings (HTTPException 403 when they are given
\* and the feature is off), resolve the thread id, hand the generator and its
\* arguments to StreamingResponse
Accept(r, requests) ==
    /\ \E rq \in requests :
        LET mcp_enabled == McpEnabled(env)
            rejected == McpRejected(rq.mcp_settings, mcp_enabled)
            minted == ~rejected /\ rq.thread_id = DefaultThread
        IN  /\ req' = [req EXCEPT ![r] = rq]
            /\ pc' = [pc EXCEPT ![r] = IF rejected THEN "rejected" ELSE "created"]
            /\ thread_id' = [thread_id EXCEPT ![r] =
                                IF rejected THEN ""
                                ELSE ResolveThreadId(rq.thread_id, uuids)]
            /\ uuids' = IF minted THEN uuids + 1 ELSE uuids
            /\ mcp_settings' = [mcp_settings EXCEPT ![r] =
                                   IF ~rejected /\ mcp_enabled
                                   THEN rq.mcp_settings ELSE NoMcpSettings]
    /\ calls' = calls + 1
    /\ callId' = [callId EXCEPT ![r] = calls + 1]
    /\ workflow_input' = [workflow_input EXCEPT ![r] = NoInput]
    /\ workflow_config' = [workflow_config EXCEPT ![r] = NoConfig]
    /\ cfg' = [cfg EXCEPT ![r] = NoCfg]
    /\ consumed' = [consumed EXCEPT ![r] = << >>]
    /\ out' = [out EXCEPT ![r] = << >>]
    /\ acq' = [acq EXCEPT ![r] = 0]
    /\ rel' = [rel EXCEPT ![r] = 0]
    /\ starts' = [starts EXCEPT ![r] = 0]
    /\ block' = [block EXCEPT ![r] = "none"]
    /\ ranWith' = [ranWith EXCEPT ![r] = NoCheckpointer]
    /\ UNCHANGED <<env, graph, openConns, sideLog, yielded, threads>>

\* the first request served on slot r
ChatStream(r, requests) ==
    /\ pc[r] = "idle"
    /\ Accept(r, requests)

\* a later request, after the previous one on the slot is over
ChatStreamAgain(r, requests) ==
    /\ pc[r] \in Ended
    /\ calls < MaxCalls
    /\ Accept(r, requests)

\* the first iteration of _stream_graph_events: graph.astream(...) is started
\* on the shared graph with the checkpointer it carries at that moment
StartEngine(r, g) ==
    /\ starts' = [starts EXCEPT ![r] = @ + 1]
    /\ ranWith' = [ranWith EXCEPT ![r] = g.checkpointer]
    /\ threads' = ThreadStarted(threads, thread_id[r])

\* lines 571-616: the generator runs up to its first await
Begin(r) ==
    /\ pc[r] = "created"
    /\ sideLog' = LogAll(sideLog, InitialRecords(req[r].messages, thread_id[r]))
    /\ workflow_input' = [workflow_input EXCEPT ![r] =
            PrepareWorkflowInput(req[r].messages, req[r].auto_accepted_plan,
                                 req[r].interrupt_feedback)]
    /\ workflow_config' = [workflow_config EXCEPT ![r] =
            WorkflowConfig(thread_id[r], mcp_settings[r])]
    /\ cfg' = [cfg EXCEPT ![r] = [saver |-> env.saver, url |-> env.url]]
    /\ IF Persistent(env)
       THEN /\ pc' = [pc EXCEPT ![r] =
                        IF IsPostgres(env.url) THEN "pg_enter"
                        ELSE IF IsMongo(env.url) THEN "mongo_enter"
                        ELSE "done"]
            /\ UNCHANGED <<starts, ranWith, threads>>
       ELSE /\ pc' = [pc EXCEPT ![r] = "stream"]
            /\ StartEngine(r, graph)
    /\ UNCHANGED <<env, graph, openConns, calls, uuids, yielded, req, thread_id,
                   callId, consumed, out, acq, rel, block, mcp_settings>>

\* the connection of call r is taken
Acquire(r) ==
    /\ openConns' = openConns \cup {callId[r]}
    /\ acq' = [acq EXCEPT ![r] = @ + 1]

\* call r leaves its async with block, if it is in one
Leave(r, how) ==
    /\ openConns' = IF block[r] = "none" THEN openConns
                    ELSE AsyncWithExit(openConns, callId[r], how)
    /\ rel' = [rel EXCEPT ![r] = IF openConns' # openConns THEN @ + 1 ELSE @]
    /\ block' = [block EXCEPT ![r] = "none"]

\* `async with AsyncConnectionPool(...) as conn` is entered
PgEnter(r) ==
    /\ pc[r] = "pg_enter"
    /\ Acquire(r)
    /\ block' = [block EXCEPT ![r] = "postgres"]
    /\ pc' = [pc EXCEPT ![r] = "pg_setup"]
    /\ UNCHANGED <<env, graph, sideLog, calls, uuids, yielded, req, thread_id,
                   workflow_input, cfg, callId, consumed, out, rel, starts,
                   ranWith, threads, workflow_config, mcp_settings>>

\* `await checkpointer.setup()` returns: the checkpointer is attached to the
\* shared graph and the stream starts
PgSetup(r) ==
    /\ pc[r] = "pg_setup"
    /\ graph' = [checkpointer |-> Checkpointer("postgres", callId[r])]
    /\ StartEngine(r, graph')
    /\ pc' = [pc EXCEPT ![r] = "stream"]
    /\ UNCHANGED <<env, openConns, sideLog, calls, uuids, yielded, req, thread_id,
                   workflow_input, cfg, callId, consumed, out, acq, rel, block,
                   workflow_config, mcp_settings>>

\* `async with AsyncMongoDBSaver.from_conn_string(...) as checkpointer`
MongoEnter(r) ==
    /\ pc[r] = "mongo_enter"
    /\ Acquire(r)
    /\ block' = [block EXCEPT ![r] = "mongodb"]
    /\ graph' = [checkpointer |-> Checkpointer("mongodb", callId[r])]
    /\ StartEngine(r, graph')
    /\ pc' = [pc EXCEPT ![r] = "stream"]
    /\ UNCHANGED <<env, sideLog, calls, uuids, yielded, req, thread_id,
                   workflow_input, cfg, callId, consumed, out, rel,
                   workflow_config, mcp_settings>>

\* opening the pool or the client fails, or setup() raises: the exception
\* leaves the generator; nothing catches it
ConnectFails(r) ==
    /\ pc[r] \in {"pg_enter", "pg_setup", "mongo_enter"}
    /\ Leave(r, "raise")
    /\ pc' = [pc EXCEPT ![r] = "failed"]
    /\ UNCHANGED <<env, graph, sideLog, calls, uuids, yielded, req, thread_id,
                   workflow_input, cfg, callId, consumed, out, acq, starts,
                   ranWith, threads, workflow_config, mcp_settings>>

\* one turn of the async for of _stream_graph_events: the engine yields an
\* event, it is translated, and the frame (if any) is yielded to the client
EngineYield(r, events) ==
    /\ pc[r] = "stream"
    /\ yielded < MaxEvents
    /\ yielded' = yielded + 1
    /\ \E ev \in events :
        LET res == StreamGraphEvent(thread_id[r], ev)
        IN  /\ consumed' = [consumed EXCEPT ![r] = Append(@, ev)]
            /\ sideLog' = LogAll(sideLog, res.log)
            /\ threads' = ThreadAfter(threads, thread_id[r], ev)
            /\ IF res.raised
               THEN /\ Leave(r, "raise")
                    /\ pc' = [pc EXCEPT ![r] = "failed"]
                    /\ out' = out
               ELSE /\ UNCHANGED <<openConns, rel, block>>
                    /\ IF Len(res.frames) > 0
                       THEN /\ out' = [out EXCEPT ![r] = YieldAll(@, res.frames)]
                            /\ pc' = [pc EXCEPT ![r] = "yielded"]
                       ELSE /\ out' = out
                            /\ pc' = pc
    /\ UNCHANGED <<env, graph, calls, uuids, req, thread_id, workflow_input, cfg,
                   callId, acq, starts, ranWith, workflow_config, mcp_settings>>

\* the StreamingResponse asks the generator for the next frame
ClientNext(r) ==
    /\ pc[r] = "yielded"
    /\ pc' = [pc EXCEPT ![r] = "stream"]
    /\ UNCHANGED <<env, graph, openConns, sideLog, calls, uuids, yielded, req,
                   thread_id, workflow_input, cfg, callId, consumed, out, acq,
                   rel, starts, block, ranWith, threads, workflow_config,
                   mcp_settings>>

\* mutant: when the engine's events are exhausted the generator waits for more
AfterStream_WaitsForMore(blk, url) == "stream"

\* where the generator goes when its `async for` is exhausted: after the
\* postgres block the mongodb test of line 630 is still evaluated, otherwise
\* the function body is over
AfterStream(blk, url) ==
    IF blk = "postgres" /\ IsMongo(url) THEN "mongo_enter" ELSE "done"

\* graph.astream is exhausted: the block is left by falling through
EngineEnd(r) ==
    /\ pc[r] = "stream"
    /\ pc' = [pc EXCEPT ![r] = AfterStream(block[r], cfg[r].url)]
    /\ Leave(r, "return")
    /\ UNCHANGED <<env, graph, sideLog, calls, uuids, yielded, req, thread_id,
                   workflow_input, cfg, callId, consumed, out, acq, starts, ranWith, threads, workflow_config,
                   mcp_settings>>

\* the engine raises inside graph.astream: the exception leaves the generator
EngineRaise(r) ==
    /\ pc[r] = "stream"
    /\ Leave(r, "raise")
    /\ pc' = [pc EXCEPT ![r] = "failed"]
    /\ UNCHANGED <<env, graph, sideLog, calls, uuids, yielded, req, thread_id,
                   workflow_input, cfg, callId, consumed, out, acq, starts, ranWith, threads, workflow_config,
                   mcp_settings>>

\* the client goes away while the generator is suspended at `yield event`:
\* the generator is closed, GeneratorExit is raised at the yield
Disconnect(r) ==
    /\ pc[r] = "yielded"
    /\ Leave(r, "close")
    /\ pc' = [pc EXCEPT ![r] = "closed"]
    /\ UNCHANGED <<env, graph, sideLog, calls, uuids, yielded, req, thread_id,
                   workflow_input, cfg, callId, consumed, out, acq, starts, ranWith, threads, workflow_config,
                   mcp_settings>>

\* the client goes away while the generator awaits the pool, setup() or the
\* engine: CancelledError is raised at the await
Cancel(r) ==
    /\ pc[r] \in {"pg_enter", "pg_setup", "mongo_enter", "stream"}
    /\ Leave(r, "raise")
    /\ pc' = [pc EXCEPT ![r] = "cancelled"]
    /\ UNCHANGED <<env, graph, sideLog, calls, uuids, yielded, req, thread_id,
                   workflow_input, cfg, callId, consumed, out, acq, starts, ranWith, threads, workflow_config,
                   mcp_settings>>

\* what a generator does once its request is accepted
Run(r, events) ==
    \/ Begin(r)
    \/ PgEnter(r)
    \/ PgSetup(r)
    \/ MongoEnter(r)
    \/ ConnectFails(r)
    \/ EngineYield(r, events)
    \/ ClientNext(r)
    \/ EngineEnd(r)
    \/ EngineRaise(r)
    \/ Disconnect(r)
    \/ Cancel(r)

\* the life of one request: every kind of engine event
Next == SetEnv \/ SetMcpEnv(1) \/ ChatStream(1, Requests) \/ Run(1, EngineEvents)

Spec == Init /\ [][Next]_vars

\* the events of the runs of SpecSeq
SeqEvents == {EvText, EvInterrupt, EvInterruptObjValue}

\* the requests of SpecSeq: a new conversation, a resume of thread t1 and a
\* follow-up on thread t1 without feedback
SeqRequests ==
    { ChatRequest(DefaultThread, << ChatMessage("research AI") >>, FALSE, NoneVal,
                  NoMcpSettings),
      ChatRequest("t1", << ChatMessage("go") >>, FALSE, "accepted", NoMcpSettings),
      ChatRequest("t1", << ChatMessage("again") >>, FALSE, NoneVal, NoMcpSettings) }

\* one request after the other on the same process
NextSeq ==
    \/ SetEnv
    \/ ChatStream(1, SeqRequests)
    \/ ChatStreamAgain(1, SeqRequests)
    \/ Run(1, SeqEvents)

SpecSeq == Init /\ [][NextSeq]_vars

\* the requests and events of SpecPar: one conversation per slot
ParRequest(t) == ChatRequest(t, << ChatMessage("go") >>, TRUE, "", NoMcpSettings)
ParEvents == {EvText}

\* two requests for different threads served at the same time: their
\* generators are interleaved at their awaits and yields
NextPar ==
    \/ SetEnv
    \/ ChatStream(1, {ParRequest("t1")})
    \/ ChatStream(2, {ParRequest("t2")})
    \/ Run(1, ParEvents)
    \/ Run(2, ParEvents)

SpecPar == Init /\ [][NextPar]_vars

\* the requests of SpecThread: a follow-up on thread t1 or a new conversation
ThreadRequests ==
    { ParRequest("t1"),
      ChatRequest(DefaultThread, << ChatMessage("go") >>, TRUE, "", NoMcpSettings) }

\* what a generator does when the checkpoint settings select no backend
RunInProcess(r, events) ==
    \/ Begin(r)
    \/ EngineYield(r, events)
    \/ ClientNext(r)
    \/ EngineEnd(r)
    \/ EngineRaise(r)
    \/ Disconnect(r)
    \/ Cancel(r)

\* two requests served at the same time, each for thread t1 or for a new
\* conversation; chat_stream takes whatever arrives, without lock or lookup
NextThread ==
    \/ ChatStream(1, ThreadRequests)
    \/ ChatStream(2, ThreadRequests)
    \/ RunInProcess(1, ParEvents)
    \/ RunInProcess(2, ParEvents)

SpecThread == Init /\ [][NextThread]_vars

\* the events of SpecLive: a text fragment and a suspension the handler
\* cannot take
LiveEvents == {EvText, EvInterruptEmpty}

NextLive ==
    \/ SetEnv
    \/ ChatStream(1, {ParRequest("t1")})
    \/ Run(1, LiveEvents)

\* the event loop runs a generator that can go on: the connection is
\* established unless it fails, the client reads the next frame unless it
\* goes away, and the engine's sequence of events comes to its end
Fairness ==
    /\ WF_vars(Begin(1))
    /\ WF_vars(PgEnter(1))
    /\ WF_vars(PgSetup(1))
    /\ WF_vars(MongoEnter(1))
    /\ WF_vars(ClientNext(1))
    /\ WF_vars(EngineEnd(1))

SpecLive == Init /\ [][NextLive]_vars /\ Fairness

\* the requests of SpecInput: every combination of the fields lines 576-592 read
InputMessages ==
    UNION {[1..n -> {ChatMessage("go"), ChatMessage("hi")}] : n \in 0..MaxMsgs}
InputRequests ==
    {ChatRequest("t1", m, a, f, NoMcpSettings) :
        m \in InputMessages, a \in BOOLEAN,
        f \in {NoneVal, "", "accepted", "edit_plan"}}

\* a request is accepted and its generator builds the engine input
NextInput == ChatStream(1, InputRequests) \/ Begin(1)

SpecInput == Init /\ [][NextInput]_vars

(* ------------------------------- claims ------------------------------- *)

\* the engine events for which the code yields a frame: an AIMessageChunk, a
\* ToolMessage, an update whose "__interrupt__" list is not empty
Emits(ev) ==
    \/ ev.kind = "messages" /\ ev.message.cls \in {"AIMessageChunk", "ToolMessage"}
    \/ ev.kind = "updates" /\ ev.has_interrupt /\ Len(ev.interrupts) > 0

\* how many events of a sequence yield a frame
EmitCount(events) == Cardinality({i \in 1..Len(events) : Emits(events[i])})

\* the frames the events of a sequence are translated to, in their order
RECURSIVE FramesOf(_, _)
FramesOf(tid, events) ==
    IF Len(events) = 0 THEN << >>
    ELSE StreamGraphEvent(tid, Head(events)).frames \o FramesOf(tid, Tail(events))

C2_OrderPreserved ==
    /\ [](\A r \in Reqs : out[r] = FramesOf(thread_id[r], consumed[r]))
    /\ [][\A r \in Reqs :
            consumed'[r] # consumed[r] /\ Len(consumed'[r]) > 0 =>
                /\ pc[r] = "stream"
                /\ Len(out[r]) = EmitCount(consumed[r])]_vars

\* C2 witness: two different frames sent, the engine asked for a third event
C2_Witness ==
    \E r \in Reqs :
        /\ pc[r] = "stream"
        /\ Len(out[r]) = 2
        /\ out[r][1] # out[r][2]

\* the generator of slot r has built its engine input
Prepared(r) == pc[r] \notin {"idle", "created", "rejected"}

\* the resume condition of a request
ResumeAsked(rq) == ~rq.auto_accepted_plan /\ Truthy(rq.interrupt_feedback)

\* the engine input is a fresh input with the request's messages
FreshInput(r) ==
    /\ workflow_input[r].type = "input"
    /\ workflow_input[r].messages = req[r].messages
    /\ workflow_input[r].plan_iterations = 0

\* C3 as stated: the engine input is a resume command exactly when
\* auto_accepted_plan is false and interrupt_feedback is non-empty, its
\* payload is then "[<interrupt_feedback>] <content of the last message>",
\* and otherwise it is a fresh input with the messages and plan_iterations 0.
C3_ResumeIffFeedback ==
    \A r \in Reqs : Prepared(r) =>
        IF ResumeAsked(req[r])
        THEN /\ workflow_input[r].type = "command"
             /\ Len(req[r].messages) > 0
             /\ workflow_input[r].resume =
                    "[" \o req[r].interrupt_feedback \o "] "
                        \o req[r].messages[Len(req[r].messages)].content
        ELSE FreshInput(r)

\* C3 amended: as stated when the request has a message; a resume request
\* without messages gives the payload "[<interrupt_feedback>]" alone.
C3_ResumeIffFeedbackOrBare ==
    \A r \in Reqs : Prepared(r) =>
        IF ResumeAsked(req[r])
        THEN /\ workflow_input[r].type = "command"
             /\ workflow_input[r].resume =
                    IF Len(req[r].messages) > 0
                    THEN "[" \o req[r].interrupt_feedback \o "] "
                             \o req[r].messages[Len(req[r].messages)].content
                    ELSE "[" \o req[r].interrupt_feedback \o "]"
        ELSE FreshInput(r)

\* C3 witness: feedback "accepted" and last message "go" resume with "[accepted] go"
C3_Witness ==
    \E r \in Reqs :
        /\ Prepared(r)
        /\ ~req[r].auto_accepted_plan
        /\ workflow_input[r] = [type |-> "command", resume |-> "[accepted] go"]

\* the call of slot r goes through one of the two persistent backends
UsesBackend(r) ==
    Persistent(cfg[r]) /\ (IsPostgres(cfg[r].url) \/ IsMongo(cfg[r].url))

\* C4: a call that uses a persistent backend acquires its connection at most
\* once and has acquired it when the engine is started; the connection stays
\* open while the stream is producing events; it is released exactly once
\* when the call is over, whether the engine ended or raised, and a call that
\* is over holds no connection.
C4_ConnectionScoped ==
    \A r \in Reqs :
        /\ acq[r] <= 1
        /\ rel[r] <= acq[r]
        /\ (callId[r] \in openConns) <=> (acq[r] = 1 /\ rel[r] = 0)
        /\ (UsesBackend(r) /\ starts[r] > 0) => acq[r] = 1
        /\ (UsesBackend(r) /\ pc[r] \in {"stream", "yielded"}) =>
               callId[r] \in openConns
        /\ pc[r] \in Ended => (callId[r] \notin openConns /\ rel[r] = acq[r])
        /\ (UsesBackend(r) /\ pc[r] \in Ended /\ starts[r] > 0) =>
               (acq[r] = 1 /\ rel[r] = 1)

\* C4 witness: the engine raised after two events had been sent, and the
\* connection taken for the call has been given back
C4_Witness ==
    \E r \in Reqs :
        /\ UsesBackend(r)
        /\ pc[r] = "failed"
        /\ Len(consumed[r]) = 2
        /\ Len(out[r]) = 2
        /\ acq[r] = 1
        /\ rel[r] = 1
        /\ callId[r] \notin openConns

\* C5: a generator that is suspended at a yielded event and is not asked for
\* the next one is closed, and that step releases the connection of its call:
\* afterwards the call holds none and has released what it acquired.
C5_DisconnectReleases ==
    [][\A r \in Reqs :
        (pc[r] = "yielded" /\ pc'[r] # "yielded" /\ pc'[r] # "stream") =>
            /\ pc'[r] = "closed"
            /\ callId'[r] \notin openConns'
            /\ rel'[r] = acq'[r]
            /\ out'[r] = out[r]]_vars

\* C5 witness: a stream on a persistent backend closed after one event
C5_Witness ==
    \E r \in Reqs :
        /\ UsesBackend(r)
        /\ pc[r] = "closed"
        /\ Len(out[r]) = 1
        /\ acq[r] = 1
        /\ rel[r] = 1

\* C6: the engine of a call runs on the checkpointer its settings select: the
\* in-process one when the flag is off or the string empty, the relational one
\* of the call for postgresql://, the document-store one for mongodb://.
C6_BackendFollowsSettings ==
    \A r \in Reqs : starts[r] > 0 =>
        /\ ~Persistent(cfg[r]) => ranWith[r].kind = "memory"
        /\ (Persistent(cfg[r]) /\ IsPostgres(cfg[r].url)) =>
               ranWith[r] = Checkpointer("postgres", callId[r])
        /\ (Persistent(cfg[r]) /\ IsMongo(cfg[r].url)) =>
               ranWith[r] = Checkpointer("mongodb", callId[r])

\* C7: a call whose connection setup failed (it is over, failed, and never
\* started the engine) has sent a last event, and that event is an error event.
C7_SetupFailureSendsErrorEvent ==
    \A r \in Reqs : (pc[r] = "failed" /\ starts[r] = 0) =>
        /\ Len(out[r]) > 0
        /\ out[r][Len(out[r])].event = "error"

\* C8: whenever the stream receives a suspension from the engine, whatever its
\* shape, no exception leaves the handler: one more event has been sent and
\* the generator is suspended at its yield, ready for the events that follow.
C8_SuspensionNeverAborts ==
    [][\A r \in Reqs :
        (/\ Len(consumed'[r]) = Len(consumed[r]) + 1
         /\ consumed'[r][Len(consumed'[r])].has_interrupt) =>
            /\ pc'[r] = "yielded"
            /\ Len(out'[r]) = Len(out[r]) + 1]_vars

\* the wire event types of a message and of a suspension
MessageTypes == {"message_chunk", "tool_calls", "tool_call_chunks", "tool_call_result"}
WireTypes == MessageTypes \cup {"interrupt"}

RECURSIVE RecordsOf(_)
RecordsOf(frames) ==
    IF Len(frames) = 0 THEN << >>
    ELSE (IF Head(frames).event = "error" THEN << >>
          ELSE << LogRecord(Head(frames).data["thread_id"], Head(frames),
                            Get(Head(frames).data, "finish_reason", "")) >>)
         \o RecordsOf(Tail(frames))

\* the side log of the thread of slot r
ThreadLog(r) == Get(sideLog, thread_id[r], << >>)

CarriesObject(ev) ==
    IF ev.kind = "updates"
    THEN /\ ev.has_interrupt
         /\ Len(ev.interrupts) > 0
         /\ ~ev.interrupts[1].raises
         /\ Get(ev.interrupts[1].attrs, "value", "") = Obj
    ELSE /\ ev.message.cls \in {"AIMessageChunk", "ToolMessage"}
         /\ \/ ev.message.content = Obj
            \/ \E i \in 1..Len(ev.message.tool_calls) :
                   \E f \in DOMAIN ev.message.tool_calls[i] :
                       ev.message.tool_calls[i][f] = Obj

\* slot r receives one more event from the engine in this step
Receives(r) == Len(consumed'[r]) = Len(consumed[r]) + 1

\* the event slot r receives in this step
Received(r) == consumed'[r][Len(consumed'[r])]

\* C11: when the payload of an engine event cannot be serialized, the step
\* sends exactly one event, the error event with the fixed payload
\* {"error": "Serialization failed"}, and the generator stays suspended at its
\* yield (no exception leaves it); an event that follows an error event in
\* the same stream is sent as well.
C11_SubstituteErrorEvent ==
    [][\A r \in Reqs : Receives(r) =>
        /\ CarriesObject(Received(r)) =>
               /\ out'[r] = Append(out[r],
                               [event |-> "error",
                                data  |-> [error |-> "Serialization failed"]])
               /\ pc'[r] = "yielded"
        /\ (/\ \E i \in 1..Len(out[r]) : out[r][i].event = "error"
            /\ Emits(Received(r))
            /\ ~CarriesObject(Received(r))) =>
               /\ Len(out'[r]) = Len(out[r]) + 1
               /\ out'[r][Len(out'[r])].event # "error"
               /\ pc'[r] = "yielded"]_vars

\* C11 witness: an error event took the place of an unserializable
\* suspension, and the text fragment after it was sent
C11_Witness ==
    \E r \in Reqs :
        /\ consumed[r] = << EvInterruptObjValue, EvText >>
        /\ Len(out[r]) = 2
        /\ out[r][1] = ErrorFrame
        /\ out[r][2].event = "message_chunk"
        /\ pc[r] = "yielded"

\* frame f is in the side log of the thread of slot r
Logged(r, f) == \E j \in 1..Len(ThreadLog(r)) : ThreadLog(r)[j].frame = f

Suspended(ths, t) == t \in DOMAIN ths /\ ths[t] = "SUSPENDED"

\* thread t is running
Running(ths, t) == t \in DOMAIN ths /\ ths[t] = "RUNNING"

\* slot r starts the engine in this step
Starts(r) == starts'[r] = starts[r] + 1

\* a suspension of thread t is emitted in this step
SuspensionEmitted(t) ==
    \E r \in Reqs :
        /\ thread_id[r] = t
        /\ Receives(r)
        /\ Received(r).has_interrupt
        /\ Len(out'[r]) = Len(out[r]) + 1

\* C13 as stated: a thread becomes SUSPENDED only in a step that emits a
\* suspension of it, and a SUSPENDED thread becomes RUNNING only in a step in
\* which a request with its thread_id starts the engine with a resume command.
C13_ResumeOnlyByCommand ==
    [][\A t \in DOMAIN threads' :
        /\ (~Suspended(threads, t) /\ Suspended(threads', t)) => SuspensionEmitted(t)
        /\ (Suspended(threads, t) /\ Running(threads', t)) =>
               \E r \in Reqs :
                   /\ thread_id[r] = t
                   /\ Starts(r)
                   /\ workflow_input'[r].type = "command"]_vars

\* C13 amended: a thread becomes SUSPENDED only in a step that emits a
\* suspension of it; a SUSPENDED thread becomes RUNNING only in a step in
\* which a request with its thread_id starts the engine, with a resume command
\* when the request satisfies the resume condition and with a fresh input
\* when it does not.
C13_LeavesSuspendedOnlyByRequest ==
    [][\A t \in DOMAIN threads' :
        /\ (~Suspended(threads, t) /\ Suspended(threads', t)) => SuspensionEmitted(t)
        /\ (Suspended(threads, t) /\ Running(threads', t)) =>
               \E r \in Reqs :
                   /\ thread_id[r] = t
                   /\ Starts(r)
                   /\ workflow_input'[r].type =
                          IF ResumeAsked(req[r]) THEN "command" ELSE "input"]_vars

\* the side log of thread t holds a suspension
InterruptLogged(t) ==
    \E j \in 1..Len(Get(sideLog, t, << >>)) : sideLog[t][j].tag = "interrupt"

\* C13 witness: thread t1 was suspended by the first request and the second
\* request has resumed it
C13_Witness ==
    \E r \in Reqs :
        /\ callId[r] = 2
        /\ thread_id[r] = "t1"
        /\ InterruptLogged("t1")
        /\ Running(threads, "t1")
        /\ starts[r] = 1
        /\ workflow_input[r].type = "command"

Streaming(r) == pc[r] \in {"stream", "yielded"}

\* C15: while two streams for different thread_ids run, the engine of each
\* runs on the in-process checkpointer or on the checkpointer its own call
\* acquired, never on one acquired by another call, and the connection of
\* that checkpointer is open as long as the stream runs, whatever the other
\* stream does.
C15_StreamsIsolated ==
    \A r \in Reqs : Streaming(r) =>
        /\ ranWith[r].conn \in {0, callId[r]}
        /\ ranWith[r].conn # 0 => ranWith[r].conn \in openConns

\* slot r takes a new request in this step
Takes(r) == callId'[r] # callId[r]

\* C16: a request with non-empty MCP settings that arrives while the MCP flag
\* is off is rejected in the step that takes it: the generator is never
\* created, the engine is not started, no event is sent, no connection is
\* taken, and neither the side log nor the shared graph changes; the request
\* stays rejected.
C16_McpRejectedBeforeStreaming ==
    /\ [][\A r \in Reqs :
            (Takes(r) /\ Len(req'[r].mcp_settings) > 0 /\ ~McpEnabled(env)) =>
                /\ pc'[r] = "rejected"
                /\ sideLog' = sideLog
                /\ graph' = graph
                /\ openConns' = openConns
                /\ threads' = threads]_vars
    /\ [](\A r \in Reqs : pc[r] = "rejected" =>
            /\ starts[r] = 0
            /\ acq[r] = 0
            /\ consumed[r] = << >>
            /\ out[r] = << >>
            /\ workflow_input[r] = NoInput)
    /\ [][\A r \in Reqs :
            (pc[r] = "rejected" /\ ~Takes(r)) => pc'[r] = "rejected"]_vars

\* C16 witness: the first request of the process had MCP settings, the flag
\* was off, and it was rejected with the side log still empty
C16_Witness ==
    \E r \in Reqs :
        /\ pc[r] = "rejected"
        /\ calls = 1
        /\ req[r].mcp_settings = McpSettings
        /\ ~McpEnabled(env)
        /\ sideLog = << >>

\* the thread ids minted so far
Minted == {Uuid(n) : n \in 1..uuids}

\* C17: a request with the sentinel token gets a thread id that is minted for
\* it (not empty, not the sentinel, used by no earlier request, log or
\* thread); a request with another token keeps it; and that thread id is the
\* one of the engine configuration, of every event sent (the substitute
\* error event has none) and of the side-log records of the request.
C17_ThreadIdResolved ==
    /\ [](\A r \in Reqs : pc[r] \notin {"idle", "rejected"} =>
            /\ req[r].thread_id = DefaultThread =>
                   /\ thread_id[r] \in Minted
                   /\ thread_id[r] # ""
                   /\ thread_id[r] # DefaultThread
            /\ req[r].thread_id # DefaultThread => thread_id[r] = req[r].thread_id
            /\ Prepared(r) => workflow_config[r].thread_id = thread_id[r]
            /\ \A i \in 1..Len(out[r]) :
                   out[r][i].event # "error" =>
                       /\ out[r][i].data["thread_id"] = thread_id[r]
                       /\ Logged(r, out[r][i])
            /\ Prepared(r) =>
                   \A i \in 1..Len(req[r].messages) :
                       ThreadLog(r)[i].frame.data["thread_id"] = thread_id[r])
    /\ [][\A r \in Reqs :
            (Takes(r) /\ pc'[r] = "created" /\ req'[r].thread_id = DefaultThread) =>
                /\ thread_id'[r] \notin Minted
                /\ thread_id'[r] \notin DOMAIN sideLog
                /\ thread_id'[r] \notin DOMAIN threads]_vars

\* C17 witness: the second request with the sentinel got the second minted
\* id, and an event of its stream carries it
C17_Witness ==
    \E r \in Reqs :
        /\ callId[r] = 2
        /\ req[r].thread_id = DefaultThread
        /\ thread_id[r] = "uuid-2"
        /\ "uuid-1" \in DOMAIN sideLog
        /\ Len(out[r]) > 0
        /\ out[r][1].event # "error"
        /\ out[r][1].data["thread_id"] = "uuid-2"

\* the frame sent in this step by slot r
Sent(r) == out'[r][Len(out'[r])]

\* slot r sends one more frame in this step
Sends(r) == Len(out'[r]) = Len(out[r]) + 1

\* the wire event type of a message
TypeOf(message) ==
    IF message.cls = "ToolMessage" THEN "tool_call_result"
    ELSE IF Len(message.tool_calls) > 0 THEN "tool_calls"
    ELSE IF Len(message.tool_call_chunks) > 0 THEN "tool_call_chunks"
    ELSE "message_chunk"

\* C18: the type of the wire event of a tool result or assistant fragment
\* depends on the fragment only: tool_call_result for a tool result,
\* tool_calls for a fragment with a completed call (with or without partial
\* fragments; the event embeds both lists), tool_call_chunks for a fragment
\* with partial fragments only, message_chunk for a fragment with neither.
C18_TypeFollowsEvent ==
    [][\A r \in Reqs :
        (/\ Receives(r)
         /\ Received(r).kind = "messages"
         /\ Received(r).message.cls \in {"ToolMessage", "AIMessageChunk"}) =>
            /\ Sends(r)
            /\ Sent(r).event = TypeOf(Received(r).message)
            /\ Sent(r).event = "tool_calls" =>
                   {"tool_calls", "tool_call_chunks"} \subseteq DOMAIN Sent(r).data
            /\ Sent(r).event = "tool_call_chunks" =>
                   /\ "tool_call_chunks" \in DOMAIN Sent(r).data
                   /\ "tool_calls" \notin DOMAIN Sent(r).data]_vars

\* C18 witness: a fragment with a completed call and a partial fragment went
\* out as tool_calls, a fragment with a partial fragment only as
\* tool_call_chunks
C18_Witness ==
    \E r \in Reqs :
        /\ consumed[r] = << EvToolCalls, EvToolCallChunks >>
        /\ Len(out[r]) = 2
        /\ out[r][1].event = "tool_calls"
        /\ out[r][2].event = "tool_call_chunks"

\* the id the stated precedence gives a suspension
StatedInterruptId(interrupt_obj) ==
    IF Get(interrupt_obj.attrs, "id", NoneVal) # NoneVal
    THEN interrupt_obj.attrs["id"]
    ELSE IF "ns" \in DOMAIN interrupt_obj.attrs /\ Len(interrupt_obj.attrs["ns"]) > 0
    THEN interrupt_obj.attrs["ns"][1]
    ELSE "interrupt"

\* slot r sends the interrupt event of a suspension in this step
SendsInterrupt(r) ==
    /\ Receives(r)
    /\ Received(r).has_interrupt
    /\ Sends(r)
    /\ Sent(r).event = "interrupt"

\* C19 as stated: the id of every interrupt event is the suspension's
\* identifier when it has one, else the first entry of its non-empty
\* namespace list, else "interrupt".
C19_InterruptIdPrecedence ==
    [][\A r \in Reqs : SendsInterrupt(r) =>
        Sent(r).data["id"] = StatedInterruptId(Received(r).interrupts[1])]_vars

\* C19 amended: as stated when the suspension's attributes can be read; when
\* reading them raises, the id is "interrupt" whatever identifier or
\* namespace list the suspension has.
C19_InterruptIdPrecedenceUnlessRaises ==
    [][\A r \in Reqs : SendsInterrupt(r) =>
        Sent(r).data["id"] =
            IF Received(r).interrupts[1].raises
            THEN "interrupt"
            ELSE StatedInterruptId(Received(r).interrupts[1])]_vars

\* C19 witness: a suspension with identifier and namespace list went out
\* under its identifier, one with a namespace list only under its first entry
C19_Witness ==
    \E r \in Reqs :
        /\ consumed[r] = << EvInterrupt, EvInterruptLegacy >>
        /\ Len(out[r]) = 2
        /\ out[r][1].data["id"] = "int-1"
        /\ out[r][2].data["id"] = "human_feedback:5e6f"

\* the content the handlers put in the payload of an engine event
ContentOf(ev) ==
    IF ev.kind = "messages" THEN ev.message.content
    ELSE IF ev.interrupts[1].raises THEN ev.interrupts[1].str
    ELSE Get(ev.interrupts[1].attrs, "value", ev.interrupts[1].str)

\* the frames _make_event has written to the side logs (the records of the
\* request messages, tagged "none", are written by _process_initial_messages)
FramedRecords ==
    UNION {{sideLog[t][j].frame :
                j \in {k \in 1..Len(sideLog[t]) : sideLog[t][k].tag # "none"}} :
           t \in DOMAIN sideLog}

\* C20: no frame sent or logged by the framer has an empty-string content,
\* and dropping empty content from it again changes nothing; an event whose
\* content is "" is framed without a content key, an event with another
\* content is framed with that content.
C20_EmptyContentOmitted ==
    /\ [](\A f \in FramedRecords \cup UNION {{out[r][i] : i \in 1..Len(out[r])} : r \in Reqs} :
            /\ "content" \in DOMAIN f.data => f.data["content"] # ""
            /\ StripEmptyContent(f.data) = f.data)
    /\ [][\A r \in Reqs : (Receives(r) /\ Sends(r) /\ Sent(r).event # "error") =>
            IF ContentOf(Received(r)) = ""
            THEN "content" \notin DOMAIN Sent(r).data
            ELSE /\ "content" \in DOMAIN Sent(r).data
                 /\ Sent(r).data["content"] = ContentOf(Received(r))]_vars

\* C20 witness: a fragment with empty content and a finish_reason went out
\* without content key, the text fragment after it with its text
C20_Witness ==
    \E r \in Reqs :
        /\ consumed[r] = << EvStop, EvText >>
        /\ Len(out[r]) = 2
        /\ "content" \notin DOMAIN out[r][1].data
        /\ "finish_reason" \in DOMAIN out[r][1].data
        /\ out[r][2].data["content"] = "Hello"

\* the generator of slot r has started running and has not finished
Active(r) == pc[r] \notin ({"idle", "created"} \cup Ended)

\* C21 as stated: no two generators that are running at the same time have
\* the same thread_id.
C21_OneGeneratorPerThread ==
    \A r1, r2 \in Reqs :
        (r1 # r2 /\ Active(r1) /\ Active(r2)) => thread_id[r1] # thread_id[r2]

\* C21 amended: two generators run at the same time for one thread_id only
\* when both requests carried that thread_id as their token; generators of
\* requests with the sentinel token never share a thread_id with another
\* generator. Every generator that runs serves the request of its slot under
\* the resolved thread_id.
C21_SharedThreadOnlyBySharedToken ==
    \A r1, r2 \in Reqs :
        (r1 # r2 /\ Active(r1) /\ Active(r2) /\ thread_id[r1] = thread_id[r2]) =>
            /\ req[r1].thread_id = thread_id[r1]
            /\ req[r2].thread_id = thread_id[r2]
            /\ req[r1].thread_id # DefaultThread

\* C21 witness: two generators stream for thread t1 at the same time, each
\* with an event sent
C21_Witness ==
    /\ thread_id[1] = "t1"
    /\ thread_id[2] = "t1"
    /\ pc[1] = "yielded"
    /\ pc[2] = "yielded"
    /\ Len(out[1]) = 1
    /\ Len(out[2]) = 1

\* C22: every generator that was created finishes, given that the engine's
\* sequence of events ends or the engine fails; the step in which the engine
\* ends or fails is the step in which the generator finishes; and a finished
\* generator holds no connection: what it acquired it has released.
C22_StreamTerminates ==
    /\ \A r \in Reqs : (pc[r] = "created") ~> (pc[r] \in Ended)
    /\ [][\A r \in Reqs :
            (pc[r] = "stream" /\ pc'[r] \notin {"stream", "yielded"}) =>
                pc'[r] \in Ended]_vars
    /\ [](\A r \in Reqs : pc[r] \in Ended =>
            /\ callId[r] \notin openConns
            /\ rel[r] = acq[r]
            /\ block[r] = "none")

\* C22 witness: a stream on a persistent backend whose engine ended after two
\* events; the generator is done and its connection released
C22_Witness ==
    \E r \in Reqs :
        /\ pc[r] = "done"
        /\ UsesBackend(r)
        /\ starts[r] = 1
        /\ Len(out[r]) = 2
        /\ acq[r] = 1
        /\ rel[r] = 1
        /\ openConns = {}

\* the side log of thread t
LogOf(log, t) == Get(log, t, << >>)

\* the generator of slot r exists and has not started the engine
BeforeEngine(r) == starts[r] = 0 /\ pc[r] \notin ({"idle"} \cup Ended)

\* rec is the record of a request message: framed as a message_chunk of
\* role user with the message's content, tagged "none"
IsInitialRecord(rec, message, tid) ==
    /\ rec.thread_id = tid
    /\ rec.tag = "none"
    /\ rec.frame.event = "message_chunk"
    /\ rec.frame.data["thread_id"] = tid
    /\ rec.frame.data["role"] = "user"
    /\ rec.frame.data["content"] = message.content

\* log is old followed by one record for each of the messages, in order
InitialAppended(old, log, messages, tid) ==
    /\ Len(log) = Len(old) + Len(messages)
    /\ SubSeq(log, 1, Len(old)) = old
    /\ \A i \in 1..Len(messages) :
           IsInitialRecord(log[Len(old) + i], messages[i], tid)

\* C23 as stated: no step of a request up to and including the start of the
\* engine writes to the side log of its thread or to a checkpoint.
C23_NothingWrittenBeforeEngine ==
    [][\A r \in Reqs : BeforeEngine(r) =>
        /\ LogOf(sideLog', thread_id[r]) = LogOf(sideLog, thread_id[r])
        /\ ~Starts(r) => threads' = threads]_vars

\* C23 amended: taking a request and resolving its thread id write nothing;
\* the step that builds the engine input appends one record tagged "none"
\* to the side log of the thread for each message of the request, before the
\* engine is started; no other step before the engine start writes to the
\* side log, and none writes to a checkpoint.
C23_OnlyInitialRecordsBeforeEngine ==
    [][\A r \in Reqs :
        /\ Takes(r) => (sideLog' = sideLog /\ threads' = threads /\ graph' = graph)
        /\ BeforeEngine(r) =>
            /\ IF pc[r] = "created" /\ pc'[r] # "created"
               THEN InitialAppended(LogOf(sideLog, thread_id[r]),
                                    LogOf(sideLog', thread_id[r]),
                                    req[r].messages, thread_id[r])
               ELSE LogOf(sideLog', thread_id[r]) = LogOf(sideLog, thread_id[r])
            /\ ~Starts(r) => threads' = threads]_vars

\* C23 witness: the generator waits for checkpointer.setup(), the engine is
\* not started, and the side log already holds the record of the request's
\* message
C23_Witness ==
    \E r \in Reqs :
        /\ pc[r] = "pg_setup"
        /\ starts[r] = 0
        /\ Len(req[r].messages) = 1
        /\ Len(ThreadLog(r)) = 1
        /\ ThreadLog(r)[1].tag = "none"

\* the agent name the stated rule gives an event
StatedAgentName(ev) ==
    IF Len(ev.agent) > 0
    THEN SplitHead(ev.agent[1], ":")
    ELSE IF "langgraph_node" \in DOMAIN ev.metadata
    THEN ev.metadata["langgraph_node"]
    ELSE "unknown"

\* slot r sends the wire event of a message in this step
SendsMessage(r) ==
    /\ Receives(r)
    /\ Received(r).kind = "messages"
    /\ Sends(r)
    /\ Sent(r).event \in MessageTypes

\* C24: the agent of the wire event of a message is the first element of
\* the agent path, cut before its first ':' if it has one, when the path is
\* not empty; otherwise the langgraph_node of the metadata; otherwise
\* "unknown".
C24_AgentNameResolved ==
    [][\A r \in Reqs : SendsMessage(r) =>
        Sent(r).data["agent"] = StatedAgentName(Received(r))]_vars

\* C24 witness: an event without agent path and metadata went out as
\* "unknown", one with the path element "planner:1a2b" as "planner"
C24_Witness ==
    \E r \in Reqs :
        /\ consumed[r] = << EvToolCallChunks, EvText >>
        /\ Len(out[r]) = 2
        /\ out[r][1].data["agent"] = "unknown"
        /\ out[r][2].data["agent"] = "planner"

\* the chunk the wire event carries for an input chunk: its fields, with the
\* defaults of absent ones, and its arguments repaired when they can be
StatedChunk(c) ==
    [name  |-> Get(c, "name", ""),
     args  |-> IF Get(c, "args", "") = TruncatedArgs THEN RepairedArgs
               ELSE Get(c, "args", ""),
     id    |-> Get(c, "id", ""),
     index |-> Get(c, "index", "0"),
     type  |-> Get(c, "type", "")]

C26_AttachedCheckpointerOpen ==
    \A r \in Reqs : (Streaming(r) /\ UsesBackend(r)) =>
        graph.checkpointer.conn \in openConns

\* C27: a request that passed validation and whose generator ran to its end
\* has started the engine exactly once, whatever the persistence flag and
\* the connection string were.
C27_EngineStartedOnce ==
    \A r \in Reqs : pc[r] = "done" => starts[r] = 1

\* C28: the engine is started with a resume command only for a thread that
\* is suspended at that moment.
C28_ResumeOnlyWhenSuspended ==
    [][\A r \in Reqs :
        (Starts(r) /\ workflow_input'[r].type = "command") =>
            Suspended(threads, thread_id[r])]_vars

\* the records this invocation of slot r has appended: the last n of the log
OwnRecords(r, n) ==
    SubSeq(ThreadLog(r), Len(ThreadLog(r)) - n + 1, Len(ThreadLog(r)))

\* every log of the side store keeps what it held
LogsKept ==
    \A t \in DOMAIN sideLog :
        /\ t \in DOMAIN sideLog'
        /\ Len(sideLog'[t]) >= Len(sideLog[t])
        /\ SubSeq(sideLog'[t], 1, Len(sideLog[t])) = sideLog[t]

\* C29: the records an invocation has appended to the side log of its thread
\* are one record tagged "none" with role user for each message of the
\* request, in request order and all there when the engine is started, then
\* the records of the serialized wire events sent so far and no other, in the
\* order sent; no step removes or rewrites a record a log already held.
C29_InvocationRecordsInOrder ==
    /\ [](\A r \in Reqs : Prepared(r) =>
            LET msgs == req[r].messages
                recs == RecordsOf(out[r])
                n    == Len(msgs) + Len(recs)
            IN  /\ Len(ThreadLog(r)) >= n
                /\ \A i \in 1..Len(msgs) :
                       IsInitialRecord(OwnRecords(r, n)[i], msgs[i], thread_id[r])
                /\ OwnRecords(r, Len(recs)) = recs)
    /\ [][LogsKept]_vars

\* C29 witness: the second invocation on a thread has sent a serialized event
\* and a substitute error event; the log of the thread holds the records of
\* the earlier invocation, then the record of the message, then one record
C29_Witness ==
    \E r \in Reqs :
        /\ callId[r] = 2
        /\ Len(req[r].messages) = 1
        /\ Len(out[r]) = 2
        /\ ErrorFrame \in {out[r][1], out[r][2]}
        /\ Len(RecordsOf(out[r])) = 1
        /\ Len(ThreadLog(r)) > 2
        /\ OwnRecords(r, 2)[1].tag = "none"
        /\ OwnRecords(r, 2)[2].frame \in {out[r][1], out[r][2]}

\* the engine of slot r has been started and the request is not over
EngineRunning(r) == starts[r] > 0 /\ pc[r] \notin Ended

====
